---------------------------- MODULE Spec2Model ----------------------------
(***************************************************************************)
(* A model of AmazonSemiStruct (src/src/benchmarks/semistruct/amazon.py):  *)
(* the construction of the product graph from raw metadata / review / Q&A  *)
(* records, its augmentation with meta links, the on-disk cache of the     *)
(* augmented graph, brand normalisation and the rendering of documents.    *)
(*                                                                         *)
(* Python strings are modelled as sequences of one-character strings, so   *)
(* that strip, slicing and split are computed character by character.      *)
(* Natural keys (asin), attribute names and kinds are TLA+ strings: the    *)
(* code only compares and concatenates them.                               *)
(***************************************************************************)
EXTENDS Integers, Sequences, FiniteSets, TLC

VARIABLES
    brand,              \* _process_brand: the argument of the first call
    rets,               \* _process_brand: the values returned so far, each call fed the last
    raw,                \* the raw record source: metadata, review and Q&A rows
    disk,               \* processed_data_dir: the saved base bundle and the cache directory
    pc,                 \* position of the construction in __init__
    runs,               \* number of constructions started on this root
    meta_link_types,    \* __init__ argument
    max_entries,        \* __init__ argument
    cache_path,         \* __init__ local
    asin2id, id2asin,   \* self.asin2id, self.id2asin
    node_info, edge_index, edge_types,
    edge_type_dict, node_type_dict, node_types,   \* the bundle being built / held
    i,                  \* post_process: index of the next kind of the loop
    n_e_types, n_n_types,   \* post_process locals (line 480)
    hist,               \* observation: what each construction called (linked: lines 396-461
                        \* ran) and what was saved before it
    doc,                \* result of get_doc_info, when it was the last call
    chunk               \* result of get_chunk_info, when it was the last call

brandVars == <<brand, rets>>
argVars == <<meta_link_types, max_entries, cache_path>>
bundleVars == <<node_info, edge_index, edge_types, edge_type_dict, node_type_dict, node_types>>
mapVars == <<asin2id, id2asin>>
loopVars == <<i, n_e_types, n_n_types>>
outVars == <<doc, chunk>>
vars == <<brandVars, raw, disk, pc, runs, argVars, mapVars, bundleVars, loopVars, hist, outVars>>

(***************************************************************************)
(* Bounds of the model.                                                    *)
(***************************************************************************)
MaxPieces == 4      \* brand inputs are concatenations of at most this many pieces
RunLen == 101       \* length of the long run of letters used to build brands over 100 characters

(***************************************************************************)
(* Python values.                                                          *)
(***************************************************************************)
None == [t |-> "None"]
NaN == [t |-> "nan"]
Str(s) == [t |-> "str", v |-> s]
List(l) == [t |-> "list", v |-> l]
Key(a) == [t |-> "key", v |-> a]        \* a natural key, a string the model does not take apart

Range(f) == {f[k] : k \in DOMAIN f}

\* s[a:b] of Python for 0 <= a, on a sequence (0-based, end exclusive, clipped).
Slice(s, a, b) == SubSeq(s, a + 1, IF b > Len(s) THEN Len(s) ELSE b)

\* s[-n:] and s[:-n] of Python for 0 < n.
Tail_(s, n) == IF n >= Len(s) THEN s ELSE SubSeq(s, Len(s) - n + 1, Len(s))
DropTail(s, n) == IF n >= Len(s) THEN <<>> ELSE SubSeq(s, 1, Len(s) - n)

RECURSIVE lstrip(_, _)
lstrip(s, chars) ==
    IF s # <<>> /\ Head(s) \in chars THEN lstrip(Tail(s), chars) ELSE s

RECURSIVE rstrip(_, _)
rstrip(s, chars) ==
    IF s # <<>> /\ s[Len(s)] \in chars THEN rstrip(SubSeq(s, 1, Len(s) - 1), chars) ELSE s

\* str.strip(chars)
strip(s, chars) == rstrip(lstrip(s, chars), chars)

\* str.split(sep): the parts between the occurrences of sep, found left to right
RECURSIVE split(_, _)
split(s, sep) ==
    LET hits == {k \in 1..(Len(s) - Len(sep) + 1) : SubSeq(s, k, k + Len(sep) - 1) = sep}
    IN  IF hits = {} THEN <<s>>
        ELSE LET k == CHOOSE h \in hits : \A g \in hits : h <= g
             IN  <<SubSeq(s, 1, k - 1)>> \o split(SubSeq(s, k + Len(sep), Len(s)), sep)

(***************************************************************************)
(* _process_brand (lines 523-533).                                         *)
(***************************************************************************)
\* the argument of strip on line 524
BrandStripChars ==
    {" ", "\"", ".", "*", "+", ",", "-", "_", "!", "@", "#", "$", "%", "^", "&",
     "(", ")", ";", "\\", "/", "|", "<", ">", "'", "\t", "\n", "\r"}

BrandMaxLen == 100

by_ == <<"b", "y", " ">>
dot_com == <<".", "c", "o", "m">>
www_dot == <<"w", "w", "w", ".">>

\* line 524
strip_brand(b) == strip(b, BrandStripChars)

\* lines 525-526
drop_by(b) == IF Len(b) > 3 /\ Slice(b, 0, 3) = by_ THEN Slice(b, 3, Len(b)) ELSE b

\* lines 527-528
drop_dot_com(b) == IF Len(b) > 4 /\ Tail_(b, 4) = dot_com THEN DropTail(b, 4) ELSE b

\* lines 529-530
drop_www_dot(b) == IF Len(b) > 4 /\ Slice(b, 0, 4) = www_dot THEN Slice(b, 4, Len(b)) ELSE b

\* lines 531-532
first_token(b) == IF Len(b) > BrandMaxLen THEN split(b, <<" ">>)[1] ELSE b

\* line 525 with the prefix test never true (the literal written without its space)
process_brand_no_by(b) == first_token(drop_www_dot(drop_dot_com(strip_brand(b))))

\* lines 527-530 exchanged: "www." dropped before ".com"
process_brand_www_first(b) == first_token(drop_dot_com(drop_www_dot(drop_by(strip_brand(b)))))

\* lines 523-533: the steps in the order of the code
process_brand(b) == first_token(drop_www_dot(drop_dot_com(drop_by(strip_brand(b)))))

(***************************************************************************)
(* Class attributes (lines 99-121).                                        *)
(***************************************************************************)
link_columns == <<"also_buy", "also_view">>
review_columns ==
    <<"reviewerID", "summary", "reviewText", "vote", "overall", "verified", "reviewTime">>
qa_columns == <<"questionType", "answerType", "question", "answer", "answerTime">>
meta_columns ==
    <<"asin", "title", "global_category", "category", "price", "brand", "feature",
      "rank", "details", "description">>

(***************************************************************************)
(* Collaborators outside src/ (src.tools.process_text, src.tools.node,     *)
(* src.tools.io), modelled from their contracts.                           *)
(***************************************************************************)
Whitespace == {" ", "\t", "\n", "\r"}

\* clean_data: trims strings, also inside lists; other values are left alone
clean_data(x) ==
    IF x.t = "str" THEN Str(strip(x.v, Whitespace))
    ELSE IF x.t = "list" THEN List([k \in 1..Len(x.v) |-> strip(x.v[k], Whitespace)])
    ELSE x

\* df_row_to_dict: the row restricted to the named columns
df_row_to_dict(row, colunm_names) == [c \in Range(colunm_names) |-> row[c]]

NoFile == [t |-> "absent"]

\* save_files / load_files: a bundle is written and read back as one unit
save_files(files) == [t |-> "files", v |-> files]
load_files(saved) == saved.v

(***************************************************************************)
(* _process_raw: record linking (lines 423-445).                           *)
(***************************************************************************)
\* drop_duplicates(subset="asin", keep="first"), line 424
RECURSIVE drop_duplicates(_)
drop_duplicates(df) ==
    IF df = <<>> THEN <<>>
    ELSE LET init == SubSeq(df, 1, Len(df) - 1)
             last == df[Len(df)]
         IN  IF \E k \in 1..Len(init) : init[k].asin = last.asin
             THEN drop_duplicates(init)
             ELSE Append(drop_duplicates(init), last)

\* df[df["asin"].isin(keys)], lines 432-434
isin(df, keys) == SelectSeq(df, LAMBDA r : r.asin \in keys)

\* the keys of the inner merge of review and metadata on asin, lines 428-429
unique_asin(df_review, df_meta) ==
    {r.asin : r \in Range(df_review)} \cap {r.asin : r \in Range(df_meta)}

\* get_map, lines 436-441: the loop writes each row's key and position, a later row
\* overwriting an earlier one of the same key
get_map(df) ==
    [a2i |-> [a \in {r.asin : r \in Range(df)} |->
                (CHOOSE k \in 1..Len(df) :
                    df[k].asin = a /\ \A g \in 1..Len(df) : df[g].asin = a => g <= k) - 1],
     i2a |-> [k \in 0..(Len(df) - 1) |-> df[k + 1].asin]]

\* drop_duplicates with keep="last"
RECURSIVE drop_duplicates_last(_)
drop_duplicates_last(df) ==
    IF df = <<>> THEN <<>>
    ELSE IF \E k \in 2..Len(df) : df[k].asin = df[1].asin
         THEN drop_duplicates_last(Tail(df))
         ELSE <<df[1]>> \o drop_duplicates_last(Tail(df))

\* lines 424-445 with the duplicates of the metadata resolved to the last occurrence
link_records_keep_last(data) ==
    LET df_meta == drop_duplicates_last(data.meta)
        keys == unique_asin(data.review, df_meta)
        df_meta_reduced == isin(df_meta, keys)
    IN  [df_meta |-> df_meta_reduced,
         df_review |-> isin(data.review, keys),
         df_qa |-> isin(data.qa, keys),
         maps |-> get_map(df_meta_reduced)]

\* lines 424-445 of _process_raw: deduplicate, merge, filter, assign ids
link_records(data) ==
    LET df_meta == drop_duplicates(data.meta)
        keys == unique_asin(data.review, df_meta)
        df_meta_reduced == isin(df_meta, keys)
    IN  [df_meta |-> df_meta_reduced,
         df_review |-> isin(data.review, keys),
         df_qa |-> isin(data.qa, keys),
         maps |-> get_map(df_meta_reduced)]

(***************************************************************************)
(* construct_raw_node_info (lines 535-567).  A node record maps attribute  *)
(* names to values.                                                        *)
(***************************************************************************)
\* the rows of df whose key has id idx, in the order of df
rows_of(df, a2i, idx) == SelectSeq(df, LAMBDA r : a2i[r.asin] = idx)

construct_raw_node_info(df_meta, df_review, df_qa, a2i, i2a) ==
    [idx \in DOMAIN i2a |->
        LET rows == rows_of(df_meta, a2i, idx)
            row == rows[Len(rows)]
            b == process_brand(clean_data(row["brand"]).v)
            cols == (Range(meta_columns) \ {"brand"})
                        \cup (IF Len(b) > 1 THEN {"brand"} ELSE {})
                        \cup {"review", "qa"}
        IN  [c \in cols |->
                IF c = "review" THEN
                    LET rs == rows_of(df_review, a2i, idx)
                    IN  List([k \in 1..Len(rs) |-> df_row_to_dict(rs[k], review_columns)])
                ELSE IF c = "qa" THEN
                    LET qs == rows_of(df_qa, a2i, idx)
                    IN  List([k \in 1..Len(qs) |-> df_row_to_dict(qs[k], qa_columns)])
                ELSE IF c = "brand" THEN Str(b)
                ELSE IF c = "asin" THEN clean_data(Key(row[c]))
                ELSE clean_data(row[c])]]

(***************************************************************************)
(* create_raw_product_graph (lines 569-586).  An edge is <<out, in, type>>;*)
(* the three loops are folded in the order the code runs them.             *)
(***************************************************************************)
\* lines 578-582: the ids of the entries that are keys of asin2id, in list order
RECURSIVE in_nodes(_, _)
in_nodes(entries, a2i) ==
    IF entries = <<>> THEN <<>>
    ELSE (IF Head(entries) \in DOMAIN a2i THEN <<a2i[Head(entries)]>> ELSE <<>>)
            \o in_nodes(Tail(entries), a2i)

\* lines 575-585 for one row and one column
edges_of_cell(out_node, edge_type_id, cell, a2i) ==
    IF cell.t # "list" THEN <<>>
    ELSE LET ins == in_nodes(cell.v, a2i)
         IN  [k \in 1..Len(ins) |-> <<out_node, ins[k], edge_type_id>>]

\* line 574: the columns of one row, from position p (0-based) on
RECURSIVE edges_of_row(_, _, _, _)
edges_of_row(row, columns, p, a2i) ==
    IF p >= Len(columns) THEN <<>>
    ELSE edges_of_cell(a2i[row.asin], p, row[columns[p + 1]], a2i)
            \o edges_of_row(row, columns, p + 1, a2i)

\* line 572: the rows from position idx (0-based) on
RECURSIVE edges_of_rows(_, _, _, _)
edges_of_rows(df, columns, idx, a2i) ==
    IF idx >= Len(df) THEN <<>>
    ELSE edges_of_row(df[idx + 1], columns, 0, a2i)
            \o edges_of_rows(df, columns, idx + 1, a2i)

\* the same loops with the column loop outermost and the entity loop inside it
create_raw_product_graph_by_column(df, columns, a2i) ==
    LET RECURSIVE col(_)
        col(p) ==
            IF p >= Len(columns) THEN <<>>
            ELSE LET part == edges_of_rows(df, <<columns[p + 1]>>, 0, a2i)
                 IN  [k \in 1..Len(part) |-> <<part[k][1], part[k][2], p>>] \o col(p + 1)
        es == col(0)
    IN  [edge_index |-> <<[k \in 1..Len(es) |-> es[k][1]], [k \in 1..Len(es) |-> es[k][2]]>>,
         edge_types |-> [k \in 1..Len(es) |-> es[k][3]]]

\* edge_index[1] is the code's edge_index[0] (sources), edge_index[2] its edge_index[1]
create_raw_product_graph(df, columns, a2i) ==
    LET es == edges_of_rows(df, columns, 0, a2i)
    IN  [edge_index |-> <<[k \in 1..Len(es) |-> es[k][1]], [k \in 1..Len(es) |-> es[k][2]]>>,
         edge_types |-> [k \in 1..Len(es) |-> es[k][3]]]

(***************************************************************************)
(* The file system under processed_data_dir: node_info_pkl is the saved    *)
(* base bundle (or NoFile), cache maps the path of each saved cache        *)
(* directory to its bundle.                                                *)
(***************************************************************************)
RECURSIVE join(_, _)
\* sep.join(parts)
join(sep, parts) ==
    IF parts = <<>> THEN ""
    ELSE IF Len(parts) = 1 THEN parts[1]
    ELSE parts[1] \o sep \o join(sep, Tail(parts))

CacheDir == "cache/"

\* lines 166-170: osp.join(processed_data_dir, "cache", "-".join(meta_link_types))
cache_path_of(mlt) ==
    IF mlt = None THEN None ELSE [t |-> "path", v |-> CacheDir \o join("-", mlt.v)]

\* osp.exists(cache_path), line 184: a saved bundle's directory, or the cache
\* directory itself once anything was saved under it
exists(d, path) ==
    \/ path.v \in DOMAIN d.cache
    \/ path.v = CacheDir /\ DOMAIN d.cache # {}

\* bool(meta_link_types), line 189
truthy(mlt) == mlt # None /\ mlt.v # <<>>

(***************************************************************************)
(* _process_raw (lines 364-469).  The categories are valid and their raw   *)
(* files are at hand: data is what read_qa / read_review return.           *)
(***************************************************************************)
zeros(n) == [k \in 1..n |-> 0]

process_raw(data, d) ==
    IF d.node_info_pkl # NoFile THEN
        \* lines 372-381
        LET loaded_files == load_files(d.node_info_pkl)
        IN  [files |-> [node_info |-> loaded_files.node_info,
                        edge_index |-> loaded_files.edge_index,
                        edge_types |-> loaded_files.edge_types,
                        edge_type_dict |-> loaded_files.edge_type_dict,
                        node_types |-> zeros(Cardinality(DOMAIN loaded_files.node_info)),
                        node_type_dict |-> (0 :> "product")],
             maps |-> [a2i |-> <<>>, i2a |-> <<>>],
             disk |-> d]
    ELSE
        \* lines 396-469
        LET linked == link_records(data)
            maps == linked.maps
            ni == construct_raw_node_info(linked.df_meta, linked.df_review, linked.df_qa,
                                          maps.a2i, maps.i2a)
            g == create_raw_product_graph(linked.df_meta, link_columns, maps.a2i)
            processed_data == [node_info |-> ni,
                               edge_index |-> g.edge_index,
                               edge_types |-> g.edge_types,
                               edge_type_dict |-> (0 :> "also_buy" @@ 1 :> "also_view")]
        IN  [files |-> [node_info |-> ni,
                        edge_index |-> g.edge_index,
                        edge_types |-> g.edge_types,
                        edge_type_dict |-> processed_data.edge_type_dict,
                        node_types |-> zeros(Cardinality(DOMAIN ni)),
                        node_type_dict |-> (0 :> "product")],
             maps |-> maps,
             disk |-> [d EXCEPT !.node_info_pkl = save_files(processed_data)]]

(***************************************************************************)
(* post_process (lines 471-521): one iteration of the loop over the kinds. *)
(***************************************************************************)
\* the characters of the model in ascending code point order
Ascii ==
    <<"\t", "\n", "\r", " ", "!", "\"", "#", "$", "%", "&", "'", "(", ")", "*", "+", ",",
      "-", ".", "/", "0", "1", "2", "3", "4", "5", "6", "7", "8", "9", ":", ";", "<", "=",
      ">", "?", "@", "A", "B", "C", "D", "E", "F", "G", "H", "I", "J", "K", "L", "M", "N",
      "O", "P", "Q", "R", "S", "T", "U", "V", "W", "X", "Y", "Z", "[", "\\", "]", "^", "_",
      "a", "b", "c", "d", "e", "f", "g", "h", "i", "j", "k", "l", "m", "n", "o", "p",
      "q", "r", "s", "t", "u", "v", "w", "x", "y", "z", "{", "|", "}", "~">>

ord(c) == CHOOSE k \in 1..Len(Ascii) : Ascii[k] = c

\* a < b on Python strings
str_lt(a, b) ==
    LET n == IF Len(a) < Len(b) THEN Len(a) ELSE Len(b)
        d == {k \in 1..n : a[k] # b[k]}
    IN  IF d = {} THEN Len(a) < Len(b)
        ELSE LET k == CHOOSE h \in d : \A g \in d : h <= g
             IN  ord(a[k]) < ord(b[k])

\* np.unique on an array of strings: the distinct values, ascending
RECURSIVE sorted(_)
sorted(S) ==
    IF S = {} THEN <<>>
    ELSE LET m == CHOOSE x \in S : \A y \in S : x = y \/ str_lt(x, y)
         IN  <<m>> \o sorted(S \ {m})

np_unique(values) == sorted(Range(values))

\* dict[key] = value
dict_set(d, key, value) == [x \in DOMAIN d \cup {key} |-> IF x = key THEN value ELSE d[x]]

\* lines 489-495: the positions, in the order of node_info.values(), of the
\* records holding the attribute.  The records were inserted in the order of
\* their ids 0, 1, ..., so the position of a record is its id.
indices_of(ni, link_type) ==
    LET n == Cardinality(DOMAIN ni)
        all == [k \in 1..n |-> k - 1]
    IN  SelectSeq(all, LAMBDA idx : link_type \in DOMAIN ni[idx])

\* line 484 raises AttributeError on a value that has no strip method
can_process(ni, link_type) ==
    \A idx \in DOMAIN ni : link_type \in DOMAIN ni[idx] => ni[idx][link_type].t = "str"

\* line 502 / 505 with the ids of the new nodes starting one too far
new_node_id_skip(cur_n_nodes, j) == cur_n_nodes + j + 1

\* lines 502 and 505: the id of the j-th new node (j 0-based)
new_node_id(cur_n_nodes, j) == cur_n_nodes + j

\* lines 498-499 and 506-507 without the base counts: the loop index alone
meta_type_ids_no_base(k, ne, nn) == [edge |-> k, node |-> k]

\* lines 498-499 and 506-507: the type ids of the kind at position k
meta_type_ids(k, ne, nn) == [edge |-> ne + k, node |-> nn + k]

\* lines 482-488 without the call of _process_brand
meta_values_raw(ni, indices, link_type) ==
    [x \in 1..Len(indices) |-> ni[indices[x]][link_type].v]

\* lines 482-488: the processed value of every record holding the attribute
meta_values(ni, indices, link_type) ==
    [x \in 1..Len(indices) |-> process_brand(ni[indices[x]][link_type].v)]

\* lines 501-506 for the unique values from position j (0-based) on
RECURSIVE meta_edges(_, _, _, _, _, _)
meta_edges(unique, values, indices, cur_n_nodes, type_id, j) ==
    IF j >= Len(unique) THEN <<>>
    ELSE LET at == SelectSeq([k \in 1..Len(indices) |-> k],
                             LAMBDA k : values[k] = unique[j + 1])
             ids == [k \in 1..Len(at) |-> indices[at[k]]]
         IN  [k \in 1..Len(ids) |-> <<ids[k], new_node_id(cur_n_nodes, j), type_id>>]
                \o meta_edges(unique, values, indices, cur_n_nodes, type_id, j + 1)

\* lines 481-507 for the kind link_type at position k of the list; g holds the six
\* collections, ne and nn are n_e_types and n_n_types
post_process_kind(g, link_type, k, ne, nn) ==
    LET indices == indices_of(g.node_info, link_type)
        values == meta_values(g.node_info, indices, link_type)
        cur_n_nodes == Cardinality(DOMAIN g.node_info)
        ids == meta_type_ids(k, ne, nn)
        unique == np_unique(values)
        es == meta_edges(unique, values, indices, cur_n_nodes, ids.edge, 0)
        new == [j \in 0..(Len(unique) - 1) |-> new_node_id(cur_n_nodes, j)]
    IN  [node_info |->
            [idx \in DOMAIN g.node_info \cup Range(new) |->
                IF idx \in Range(new)
                THEN LET j == CHOOSE x \in DOMAIN new : new[x] = idx
                     IN  (link_type \o "_name") :> Str(unique[j + 1])
                ELSE g.node_info[idx]],
         edge_index |-> <<g.edge_index[1] \o [x \in 1..Len(es) |-> es[x][1]],
                          g.edge_index[2] \o [x \in 1..Len(es) |-> es[x][2]]>>,
         edge_types |-> g.edge_types \o [x \in 1..Len(es) |-> es[x][3]],
         edge_type_dict |-> dict_set(g.edge_type_dict, ids.edge, "has_" \o link_type),
         node_type_dict |-> dict_set(g.node_type_dict, ids.node, link_type),
         node_types |-> g.node_types \o [x \in 1..Len(unique) |-> ids.node]]

(***************************************************************************)
(* __init__ (lines 137-196) as a state machine.                            *)
(*   pc = "idle"    no object was constructed yet                          *)
(*   pc = "raw"     cache miss: _process_raw is about to run (line 188)    *)
(*   pc = "post"    inside the loop of post_process (lines 481-507)        *)
(*   pc = "ready"   the object is constructed                             *)
(*   pc = "raised"  the construction ended with an exception               *)
(* The download of the processed archive (lines 172-182) is left to the    *)
(* caller: download_processed = False.                                     *)
(***************************************************************************)
MaxRuns == 2            \* constructions on one root directory

DefaultMaxEntries == 25

NoDoc == [status |-> "none"]

bundle == [node_info |-> node_info, edge_index |-> edge_index, edge_types |-> edge_types,
           edge_type_dict |-> edge_type_dict, node_type_dict |-> node_type_dict,
           node_types |-> node_types]

EmptyBundle == [node_info |-> <<>>, edge_index |-> <<<<>>, <<>>>>, edge_types |-> <<>>,
                edge_type_dict |-> <<>>, node_type_dict |-> <<>>, node_types |-> <<>>]

SetBundle(files) ==
    /\ node_info' = files.node_info
    /\ edge_index' = files.edge_index
    /\ edge_types' = files.edge_types
    /\ edge_type_dict' = files.edge_type_dict
    /\ node_type_dict' = files.node_type_dict
    /\ node_types' = files.node_types

\* line 184 without the test of the cache: every construction recomputes
cache_hit_never(d, path) == FALSE

\* line 184: cache_path is not None and osp.exists(cache_path)
cache_hit(d, path) == path # None /\ exists(d, path)

\* lines 158-187: a new object; on a cache hit the bundle is loaded and the
\* construction is over, otherwise _process_raw runs next
Construct(mlt, me) ==
    /\ pc \in {"idle", "ready", "raised"}
    /\ runs < MaxRuns
    /\ runs' = runs + 1
    /\ meta_link_types' = mlt
    /\ max_entries' = me
    /\ cache_path' = cache_path_of(mlt)
    /\ asin2id' = <<>>
    /\ id2asin' = <<>>
    /\ doc' = NoDoc
    /\ chunk' = NoDoc
    /\ hist' = [hist EXCEPT !.ran_raw = FALSE, !.linked = FALSE, !.ran_post = FALSE,
                             !.prior = hist.saved]
    /\ IF cache_hit(disk, cache_path')
       THEN IF cache_path'.v \in DOMAIN disk.cache
            THEN /\ SetBundle(load_files(disk.cache[cache_path'.v]))
                 /\ pc' = "ready"
            ELSE \* the directory holds no bundle: load_files fails
                 /\ SetBundle(EmptyBundle)
                 /\ pc' = "raised"
       ELSE /\ SetBundle(EmptyBundle)
            /\ pc' = "raw"
    /\ UNCHANGED <<brandVars, raw, disk, loopVars>>

\* lines 188-189 and, when meta_link_types is not empty, lines 472-480
ProcessRaw ==
    /\ pc = "raw"
    /\ LET r == process_raw(raw, disk)
       IN  /\ SetBundle(r.files)
           /\ asin2id' = r.maps.a2i
           /\ id2asin' = r.maps.i2a
           /\ disk' = r.disk
           /\ IF truthy(meta_link_types)
              THEN /\ pc' = "post"
                   /\ i' = 0
                   /\ n_e_types' = Cardinality(DOMAIN r.files.edge_type_dict)
                   /\ n_n_types' = Cardinality(DOMAIN r.files.node_type_dict)
                   /\ hist' = [hist EXCEPT !.ran_raw = TRUE, !.ran_post = TRUE,
                                            !.linked = (disk.node_info_pkl = NoFile)]
              ELSE /\ pc' = "ready"
                   /\ hist' = [hist EXCEPT !.ran_raw = TRUE,
                                            !.linked = (disk.node_info_pkl = NoFile)]
                   /\ UNCHANGED loopVars
    /\ UNCHANGED <<brandVars, raw, runs, argVars, outVars>>

\* lines 481-507: the iteration of the loop for meta_link_types[i]
PostProcessKind ==
    /\ pc = "post"
    /\ i < Len(meta_link_types.v)
    /\ LET link_type == meta_link_types.v[i + 1]
       IN  IF can_process(node_info, link_type)
           THEN /\ SetBundle(post_process_kind(bundle, link_type, i, n_e_types, n_n_types))
                /\ i' = i + 1
                /\ pc' = "post"
           ELSE \* AttributeError out of _process_brand
                /\ pc' = "raised"
                /\ UNCHANGED <<bundleVars, i>>
    /\ UNCHANGED <<brandVars, raw, disk, runs, argVars, mapVars, n_e_types, n_n_types,
                   hist, outVars>>

\* lines 508-521 and line 196: the bundle is saved under cache_path and returned
PostProcessSave ==
    /\ pc = "post"
    /\ i = Len(meta_link_types.v)
    /\ pc' = "ready"
    /\ IF cache_path # None
       THEN /\ disk' = [disk EXCEPT !.cache =
                           [p \in DOMAIN disk.cache \cup {cache_path.v} |->
                               IF p = cache_path.v THEN save_files(bundle)
                               ELSE disk.cache[p]]]
            /\ hist' = [hist EXCEPT !.saved =
                           hist.saved \cup {[kinds |-> meta_link_types.v, files |-> bundle]}]
       ELSE UNCHANGED <<disk, hist>>
    /\ UNCHANGED <<brandVars, raw, runs, argVars, mapVars, bundleVars, loopVars, outVars>>

(***************************************************************************)
(* String helpers of the rendering code.                                   *)
(***************************************************************************)
\* the characters of a string literal of the code
chars(s) == [k \in 1..Len(s) |-> SubSeq(s, k, k)]

Digits == chars("0123456789")
Upper == chars("ABCDEFGHIJKLMNOPQRSTUVWXYZ")
Lower == chars("abcdefghijklmnopqrstuvwxyz")

\* str(n) for n >= 0, as an f-string prints it
RECURSIVE str_int(_)
str_int(n) ==
    IF n < 10 THEN <<Digits[n + 1]>>
    ELSE str_int(n \div 10) \o <<Digits[(n % 10) + 1]>>

\* str.lower()
lower(s) ==
    [k \in 1..Len(s) |->
        IF s[k] \in Range(Upper)
        THEN Lower[CHOOSE x \in 1..Len(Upper) : Upper[x] = s[k]]
        ELSE s[k]]

\* sub in s
contains(s, sub) == \E k \in 1..(Len(s) - Len(sub) + 1) : SubSeq(s, k, k + Len(sub) - 1) = sub

\* sep.join(parts) on character sequences
RECURSIVE join_seq(_, _)
join_seq(sep, parts) ==
    IF parts = <<>> THEN <<>>
    ELSE IF Len(parts) = 1 THEN parts[1]
    ELSE parts[1] \o sep \o join_seq(sep, Tail(parts))

\* s.replace(",", "")
remove_commas(s) == SelectSeq(s, LAMBDA c : c # ",")

\* int(s): s may be surrounded by whitespace and signed; its digits may be
\* separated by single underscores.  ok is false where int raises ValueError.
int_of(s) ==
    LET t == strip(s, Whitespace)
        signed == t # <<>> /\ t[1] \in {"+", "-"}
        body == IF signed THEN Tail(t) ELSE t
        ok == /\ body # <<>>
              /\ \A k \in 1..Len(body) : body[k] \in Range(Digits) \cup {"_"}
              /\ body[1] # "_" /\ body[Len(body)] # "_"
              /\ \A k \in 1..(Len(body) - 1) : ~(body[k] = "_" /\ body[k + 1] = "_")
        ds == SelectSeq(body, LAMBDA c : c # "_")
        RECURSIVE val(_)
        val(d) == IF d = <<>> THEN 0
                  ELSE 10 * val(SubSeq(d, 1, Len(d) - 1))
                        + ((CHOOSE x \in 1..Len(Digits) : Digits[x] = d[Len(d)]) - 1)
    IN  [ok |-> ok,
         v |-> IF ~ok THEN 0 ELSE IF signed /\ t[1] = "-" THEN 0 - val(ds) ELSE val(ds)]

\* a dict value of a record
Dict(d) == [t |-> "dict", v |-> d]

\* the elements a for loop or join takes from a list or from a string
items(x) == IF x.t = "list" THEN x.v ELSE [k \in 1..Len(x.v) |-> <<x.v[k]>>]

\* len(x) is defined on lists and strings; on a float (NaN) it raises TypeError
sized(x) == x.t \in {"list", "str"}

\* the text an f-string puts for a value
RECURSIVE fmt(_)
fmt(x) ==
    IF x.t = "str" THEN x.v
    ELSE IF x.t = "key" THEN chars(x.v)
    ELSE IF x.t = "nan" THEN chars("nan")
    ELSE IF x.t = "None" THEN chars("None")
    ELSE IF x.t = "list"
         THEN chars("[")
                \o join_seq(chars(", "), [k \in 1..Len(x.v) |-> chars("'") \o x.v[k] \o chars("'")])
                \o chars("]")
    ELSE chars("{...}")

(***************************************************************************)
(* __getitem__ (lines 198-208) and get_doc_info (lines 259-326).           *)
(***************************************************************************)
\* lines 198-208: the try block reads the local `node` before it is bound, the
\* bare except swallows the error, so the node has the attributes of the record
getitem(ni, idx) == ni[idx]

hasattr(node, a) == a \in DOMAIN node

\* node.details.dictionary.product_dimensions, or None where an attribute of
\* the path is missing (the AttributeError is caught on line 269)
product_dimensions(node) ==
    IF /\ hasattr(node, "details") /\ node["details"].t = "dict"
       /\ "dictionary" \in DOMAIN node["details"].v
       /\ node["details"].v["dictionary"].t = "dict"
       /\ "product_dimensions" \in DOMAIN node["details"].v["dictionary"].v
    THEN node["details"].v["dictionary"].v["product_dimensions"]
    ELSE None

\* lines 266-270: the unpacking succeeds on exactly two parts
dimensions_text(node) ==
    LET pd == product_dimensions(node)
        parts == IF pd.t = "str" THEN split(pd.v, chars(" ; ")) ELSE <<>>
    IN  IF Len(parts) = 2
        THEN chars("- dimensions: ") \o parts[1] \o chars("\n")
                \o chars("- weight: ") \o parts[2] \o chars("\n")
        ELSE <<>>

\* lines 271-274
description_text(node) ==
    IF Len(node["description"].v) > 0
    THEN LET description == strip(join_seq(<<" ">>, items(node["description"])), {" "})
         IN  IF Len(description) > 0
             THEN chars("- description: ") \o description \o chars("\n")
             ELSE <<>>
    ELSE <<>>

\* lines 279-284: the loop over the features from position feature_idx on
RECURSIVE feature_lines(_, _)
feature_lines(feature, feature_idx) ==
    IF feature_idx >= Len(feature) THEN <<>>
    ELSE LET f == feature[feature_idx + 1]
         IN  (IF f = <<>> \/ contains(lower(f), chars("asin")) THEN <<>>
              ELSE chars("#") \o str_int(feature_idx + 1) \o chars(": ") \o f \o chars("\n"))
                \o feature_lines(feature, feature_idx + 1)

\* lines 277-286
feature_text(node) ==
    IF Len(node["feature"].v) > 0
    THEN chars("- features: \n") \o feature_lines(items(node["feature"]), 0)
    ELSE <<>>

\* lines 290-293: 0 for a null vote, else int(vote.replace(",", "")); ok is false
\* where the expression raises (ValueError of int, AttributeError of replace)
score(review) ==
    IF review["vote"].t \in {"nan", "None"} THEN [ok |-> TRUE, v |-> 0]
    ELSE IF review["vote"].t = "str" THEN int_of(remove_commas(review["vote"].v))
    ELSE [ok |-> FALSE, v |-> 0]

\* np.argsort(-np.array(scores)), line 294: the orders of the positions (0-based)
\* by descending score; the default sort kind is not stable, so equal scores
\* may come in any order
argsort_desc(scores) ==
    {ranks \in [1..Len(scores) -> 0..(Len(scores) - 1)] :
        /\ \A a, b \in 1..Len(scores) : a # b => ranks[a] # ranks[b]
        /\ \A a \in 1..(Len(scores) - 1) : scores[ranks[a] + 1] >= scores[ranks[a + 1] + 1]}

\* lines 295-303: the loop over ranks from position k on
RECURSIVE review_lines(_, _, _, _)
review_lines(review, ranks, k, me) ==
    IF k >= Len(ranks) THEN <<>>
    ELSE LET review_idx == ranks[k + 1]
             r == review[review_idx + 1]
         IN  chars("#") \o str_int(review_idx + 1) \o chars(":\n")
                \o chars("summary: ") \o fmt(r["summary"]) \o chars("\n")
                \o chars("text: \"") \o fmt(r["reviewText"]) \o chars("\"\n")
                \o (IF k > me THEN <<>> ELSE review_lines(review, ranks, k + 1, me))

\* lines 307-316: the loop over the Q&A entries from position qa_idx on
RECURSIVE qa_lines(_, _, _)
qa_lines(qa, qa_idx, me) ==
    IF qa_idx >= Len(qa) THEN <<>>
    ELSE chars("#") \o str_int(qa_idx + 1) \o chars(":\n")
            \o chars("question: \"") \o fmt(qa[qa_idx + 1]["question"]) \o chars("\"\n")
            \o chars("answer: \"") \o fmt(qa[qa_idx + 1]["answer"]) \o chars("\"\n")
            \o (IF qa_idx > me THEN <<>> ELSE qa_lines(qa, qa_idx + 1, me))

\* neighbor lookup of the base class (not under src/): the ids joined to idx by an
\* edge with the label, in the order of the edges, in either direction
get_neighbor_nodes(g, idx, label) ==
    LET at == SelectSeq([k \in 1..Len(g.edge_types) |-> k],
                        LAMBDA k : /\ g.edge_type_dict[g.edge_types[k]] = label
                                   /\ idx \in {g.edge_index[1][k], g.edge_index[2][k]})
    IN  [k \in 1..Len(at) |->
            IF g.edge_index[1][at[k]] = idx THEN g.edge_index[2][at[k]]
            ELSE g.edge_index[1][at[k]]]

\* lines 336-341: "#n: " + title + "\n" per neighbor
RECURSIVE neighbor_lines(_, _, _)
neighbor_lines(g, ns, k) ==
    IF k >= Len(ns) THEN <<>>
    ELSE chars("#") \o str_int(k + 1) \o chars(": ") \o getitem(g.node_info, ns[k + 1])["title"].v
            \o chars("\n") \o neighbor_lines(g, ns, k + 1)

\* get_rel_info (lines 328-362) with the default rel_types and n_rel; ok is false
\* where a neighbor has no title string or the brand neighbor no brand_name
get_rel_info(g, idx) ==
    LET n_also_buy == get_neighbor_nodes(g, idx, "also_buy")
        n_also_view == get_neighbor_nodes(g, idx, "also_view")
        n_has_brand == get_neighbor_nodes(g, idx, "has_brand")
        titled(ns) == \A k \in 1..Len(ns) :
                         /\ hasattr(getitem(g.node_info, ns[k]), "title")
                         /\ getitem(g.node_info, ns[k])["title"].t = "str"
        ok == /\ titled(n_also_buy) /\ titled(n_also_view)
              /\ Len(n_has_brand) > 0 => hasattr(getitem(g.node_info, n_has_brand[1]), "brand_name")
        str_also_buy == neighbor_lines(g, n_also_buy, 0)
        str_also_view == neighbor_lines(g, n_also_view, 0)
        body == (IF Len(str_also_buy) > 0
                 THEN chars("  products also purchased: \n") \o str_also_buy ELSE <<>>)
                \o (IF Len(str_also_view) > 0
                    THEN chars("  products also viewed: \n") \o str_also_view ELSE <<>>)
                \o (IF Len(n_has_brand) > 0
                    THEN chars("  brand: ")
                            \o fmt(getitem(g.node_info, n_has_brand[1])["brand_name"])
                            \o chars("\n")
                    ELSE <<>>)
    IN  IF ~ok THEN [ok |-> FALSE, text |-> <<>>]
        ELSE [ok |-> TRUE,
              text |-> IF Len(body) > 0 THEN chars("- relations:\n") \o body ELSE <<>>]

Raised(idx, add_rel) == [status |-> "raised", idx |-> idx, add_rel |-> add_rel]
Returned(idx, add_rel, text) ==
    [status |-> "ok", idx |-> idx, add_rel |-> add_rel, text |-> text]

\* get_doc_info (lines 259-326) with compact = False: the results the call can
\* have, one per order argsort may give to the reviews
get_doc_info(g, me, idx, add_rel) ==
    LET node == getitem(g.node_info, idx)
    IN  IF g.node_type_dict[g.node_types[idx + 1]] = "brand"
        THEN {IF hasattr(node, "brand_name")
              THEN Returned(idx, add_rel, chars("brand name: ") \o fmt(node["brand_name"]))
              ELSE Raised(idx, add_rel)}
        ELSE IF \E a \in {"title", "description", "feature", "review", "qa"} : ~hasattr(node, a)
        THEN {Raised(idx, add_rel)}             \* AttributeError
        ELSE IF \E a \in {"description", "feature", "review", "qa"} : ~sized(node[a])
        THEN {Raised(idx, add_rel)}             \* TypeError of len
        ELSE IF \E k \in 1..Len(node["review"].v) : ~score(node["review"].v[k]).ok
        THEN {Raised(idx, add_rel)}             \* line 292
        ELSE IF add_rel /\ ~get_rel_info(g, idx).ok
        THEN {Raised(idx, add_rel)}
        ELSE LET head == chars("- product: ") \o fmt(node["title"]) \o chars("\n")
                            \o (IF hasattr(node, "brand")
                                THEN chars("- brand: ") \o fmt(node["brand"]) \o chars("\n")
                                ELSE <<>>)
                            \o dimensions_text(node)
                            \o description_text(node)
                            \o feature_text(node)
                 scores == [k \in 1..Len(node["review"].v) |-> score(node["review"].v[k]).v]
                 qa_text == IF Len(node["qa"].v) > 0
                            THEN chars("- Q&A: \n") \o qa_lines(node["qa"].v, 0, me)
                            ELSE <<>>
                 rel == IF add_rel THEN get_rel_info(g, idx).text ELSE <<>>
             IN  {Returned(idx, add_rel,
                           head
                           \o (IF Len(node["review"].v) > 0
                               THEN chars("- reviews: \n")
                                        \o review_lines(node["review"].v, ranks, 0, me)
                               ELSE <<>>)
                           \o qa_text \o rel) : ranks \in argsort_desc(scores)}

\* a call of get_doc_info on the constructed object
GetDocInfo(idx, add_rel) ==
    /\ pc = "ready"
    /\ idx \in DOMAIN node_info
    /\ doc' \in get_doc_info(bundle, max_entries, idx, add_rel)
    /\ chunk' = NoDoc
    /\ UNCHANGED <<brandVars, raw, disk, pc, runs, argVars, mapVars, bundleVars, loopVars,
                   hist>>

(***************************************************************************)
(* get_chunk_info (lines 210-257).                                         *)
(***************************************************************************)
\* "name" in attribute, lines 215, 226, 244, 253
names(attribute, name) == contains(chars(attribute), chars(name))

\* lines 217-223: the features that are neither empty nor mention "asin"
chunk_features(feature) ==
    SelectSeq(feature, LAMBDA f : f # <<>> /\ ~contains(lower(f), chars("asin")))

\* lines 236-241: the loop over ranks from position k on
RECURSIVE chunk_review_lines(_, _, _, _)
chunk_review_lines(review, ranks, k, me) ==
    IF k >= Len(ranks) THEN <<>>
    ELSE chars("The review \"") \o fmt(review[ranks[k + 1] + 1]["summary"]) \o chars("\"")
            \o chars("states that \"") \o fmt(review[ranks[k + 1] + 1]["reviewText"])
            \o chars("\". ")
            \o (IF k > me THEN <<>> ELSE chunk_review_lines(review, ranks, k + 1, me))

\* lines 246-250: the loop over the questions from position k on
RECURSIVE chunk_qa_lines(_, _, _)
chunk_qa_lines(qa, k, me) ==
    IF k >= Len(qa) THEN <<>>
    ELSE chars("The question is \"") \o fmt(qa[k + 1]["question"]) \o chars("\", ")
            \o chars("and the answer is \"") \o fmt(qa[k + 1]["answer"]) \o chars("\". ")
            \o (IF k > me THEN <<>> ELSE chunk_qa_lines(qa, k + 1, me))

ChunkRaised(idx, attribute) == [status |-> "raised", idx |-> idx, attribute |-> attribute]
ChunkReturned(idx, attribute, value) ==
    [status |-> "ok", idx |-> idx, attribute |-> attribute, value |-> value]

\* lines 228-235 of get_chunk_info for a review list whose votes all parse
chunk_of_reviews(idx, attribute, review, me) ==
    {ChunkReturned(idx, attribute, Str(chunk_review_lines(review, ranks, 0, me))) :
        ranks \in argsort_desc([k \in 1..Len(review) |-> score(review[k]).v])}

\* lines 215-257 for an attribute the node has, node_attr its value
chunk_of_attr(idx, attribute, node_attr, me) ==
    IF names(attribute, "feature") \/ names(attribute, "review") \/ names(attribute, "qa")
    THEN IF ~sized(node_attr) THEN {ChunkRaised(idx, attribute)}      \* TypeError of len
         ELSE IF names(attribute, "feature")
         THEN {ChunkReturned(idx, attribute,
                             Str(join_seq(<<" ">>, chunk_features(items(node_attr)))))}
         ELSE IF names(attribute, "review")
         THEN IF \E k \in 1..Len(node_attr.v) : ~score(node_attr.v[k]).ok
              THEN {ChunkRaised(idx, attribute)}                       \* line 232
              ELSE chunk_of_reviews(idx, attribute, node_attr.v, me)
         ELSE {ChunkReturned(idx, attribute, Str(chunk_qa_lines(node_attr.v, 0, me)))}
    ELSE IF names(attribute, "description")
    THEN IF ~sized(node_attr) THEN {ChunkRaised(idx, attribute)}
         ELSE IF Len(node_attr.v) > 0
         THEN {ChunkReturned(idx, attribute, Str(join_seq(<<" ">>, items(node_attr))))}
         ELSE {ChunkReturned(idx, attribute, node_attr)}
    ELSE {ChunkReturned(idx, attribute, node_attr)}

\* get_chunk_info (lines 210-257): the results the call can have
get_chunk_info(g, me, idx, attribute) ==
    IF ~hasattr(getitem(g.node_info, idx), attribute)
    THEN {ChunkReturned(idx, attribute, Str(<<>>))}
    ELSE chunk_of_attr(idx, attribute, getitem(g.node_info, idx)[attribute], me)

\* a call of get_chunk_info on the constructed object
GetChunkInfo(idx, attribute) ==
    /\ pc = "ready"
    /\ idx \in DOMAIN node_info
    /\ chunk' \in get_chunk_info(bundle, max_entries, idx, attribute)
    /\ doc' = NoDoc
    /\ UNCHANGED <<brandVars, raw, disk, pc, runs, argVars, mapVars, bundleVars, loopVars,
                   hist>>

(***************************************************************************)
(* Raw record sources.                                                     *)
(***************************************************************************)
MaxProducts == 2        \* products with a chosen brand, besides the fixed one

S_Acme == <<"A", "c", "m", "e">>
S_Zed == <<"Z", "e", "d">>
S_Kit == <<"K", "i", "t">>
S_Mat == <<"M", "a", "t">>

\* a metadata row; the columns the model does not vary hold fixed values
MetaRow(asin, title, brand_, feature, details, description, also_buy, also_view) ==
    [asin |-> asin, title |-> Str(title), global_category |-> Str(<<"T", "o", "y", "s">>),
     category |-> List(<<<<"T", "o", "y", "s">>>>), price |-> Str(<<"$", "5">>),
     brand |-> Str(brand_), feature |-> feature, rank |-> NaN, details |-> details,
     description |-> description, also_buy |-> also_buy, also_view |-> also_view]

ReviewRow(asin, vote) ==
    [asin |-> asin, reviewerID |-> Str(<<"u">>), summary |-> Str(<<"o", "k">>),
     reviewText |-> Str(<<"f", "i", "n", "e">>), vote |-> vote, overall |-> Str(<<"5">>),
     verified |-> Str(<<"T">>), reviewTime |-> NaN]

QaRow(asin) ==
    [asin |-> asin, questionType |-> NaN, answerType |-> NaN, question |-> Str(<<"q">>),
     answer |-> Str(<<"a">>), answerTime |-> NaN]

SeqsUpTo(S, n) == UNION {[1..k -> S] : k \in 0..n}

\* raw brand values: a plain brand, one that a second normalisation changes
\* again ("by by Acme" is stored as "by Acme"), a second brand, and one too
\* short to be stored
BrandPool == {S_Acme, by_ \o by_ \o S_Acme, S_Zed \o <<".">>, <<>>}

ProductKeys == <<"P1", "P2", "P3", "P4">>
ProductTitles == <<S_Kit, S_Mat, by_ \o S_Mat, S_Kit>>

\* product P0 without a brand and with title "by Kit", the chosen products after
\* it, and a last product without any review
BrandRaw(brands) ==
    [meta |->
        <<MetaRow("P0", by_ \o S_Kit, <<>>, List(<<>>), NaN, List(<<>>),
                  List(<<"P1", "ZZ">>), NaN)>>
        \o [k \in 1..Len(brands) |->
               MetaRow(ProductKeys[k], ProductTitles[k], brands[k], List(<<>>), NaN,
                       List(<<>>), List(<<"P0">>), List(<<"P0", "P1">>))]
        \o <<MetaRow("P9", S_Kit, S_Acme, List(<<>>), NaN, List(<<>>), NaN, NaN)>>,
     review |->
        <<ReviewRow("P0", NaN)>> \o [k \in 1..Len(brands) |-> ReviewRow(ProductKeys[k], NaN)],
     qa |-> <<QaRow("P0")>>]

BrandFamily == {BrandRaw(bs) : bs \in SeqsUpTo(BrandPool, MaxProducts) \ {<<>>}}

KindLists ==
    {None, List(<<>>), List(<<"brand">>), List(<<"title">>),
     List(<<"brand", "title">>), List(<<"title", "brand">>)}

NoHist == [ran_raw |-> FALSE, linked |-> FALSE, ran_post |-> FALSE, saved |-> {}, prior |-> {}]

\* the state of a fresh root directory before any construction
Fresh ==
    /\ disk = [node_info_pkl |-> NoFile, cache |-> <<>>]
    /\ pc = "idle"
    /\ runs = 0
    /\ meta_link_types = None
    /\ max_entries = DefaultMaxEntries
    /\ cache_path = None
    /\ asin2id = <<>>
    /\ id2asin = <<>>
    /\ node_info = <<>>
    /\ edge_index = <<<<>>, <<>>>>
    /\ edge_types = <<>>
    /\ edge_type_dict = <<>>
    /\ node_type_dict = <<>>
    /\ node_types = <<>>
    /\ i = 0
    /\ n_e_types = 0
    /\ n_n_types = 0
    /\ hist = NoHist
    /\ doc = NoDoc
    /\ chunk = NoDoc

Init ==
    /\ brand = <<>>
    /\ rets = <<>>
    /\ raw \in BrandFamily
    /\ Fresh

Next ==
    \/ \E mlt \in KindLists : Construct(mlt, DefaultMaxEntries)
    \/ ProcessRaw
    \/ PostProcessKind
    \/ PostProcessSave

Spec == Init /\ [][Next]_vars

(***************************************************************************)
(* _process_brand on its own: the function is applied to an input, then to *)
(* its own result.                                                         *)
(***************************************************************************)
S_acme == <<"a", "c", "m", "e">>
S_Corp == <<"C", "o", "r", "p">>
Run == [k \in 1..RunLen |-> "x"]

BrandPieces == {by_, www_dot, dot_com, S_Acme, S_acme, S_Corp, <<" ">>, <<".">>, Run}

RECURSIVE concat(_)
concat(ps) == IF ps = <<>> THEN <<>> ELSE Head(ps) \o concat(Tail(ps))

BrandInputs == {concat(ps) : ps \in SeqsUpTo(BrandPieces, MaxPieces)}

EmptyRaw == [meta |-> <<>>, review |-> <<>>, qa |-> <<>>]

InitBrand ==
    /\ brand \in BrandInputs
    /\ rets = <<>>
    /\ raw = EmptyRaw
    /\ Fresh

\* a call of _process_brand: on the input first, then on the value returned last
ProcessBrand ==
    /\ Len(rets) < 2
    /\ rets' = Append(rets, process_brand(IF rets = <<>> THEN brand ELSE rets[Len(rets)]))
    /\ UNCHANGED <<brand, raw, disk, pc, runs, argVars, mapVars, bundleVars, loopVars,
                   hist, outVars>>

NextBrand == ProcessBrand

SpecBrand == InitBrand /\ [][NextBrand]_vars

(***************************************************************************)
(* _process_raw on its own: record sources whose keys repeat, are missing  *)
(* from one of the collections, and whose link cells hold known keys,      *)
(* unknown keys, repeated keys and values that are no lists.               *)
(***************************************************************************)
MaxMeta == 3            \* metadata rows
MaxReview == 3          \* review rows

MetaKeys == {"A", "B", "C"}
ReviewKeys == {"A", "B", "X"}

\* the link cells of the metadata row at position k: "Z" is no key of any
\* collection, a string is a value that is not a list
BuyCells == <<List(<<"B", "Z", "A">>), List(<<"A", "A">>), NaN, Str(<<"A">>)>>
ViewCells == <<List(<<"A">>), NaN, List(<<"C", "A", "B">>), List(<<>>)>>
RowTitles == <<S_Kit, S_Mat, S_Zed, S_Acme>>

Cyclic(cells, k) == cells[((k - 1) % Len(cells)) + 1]

\* the rows of the metadata differ by position, so that which of two rows of
\* one key is kept shows in the records and in the edges
LinkRaw(meta_keys, review_keys, qa_keys) ==
    [meta |-> [k \in 1..Len(meta_keys) |->
                  MetaRow(meta_keys[k], Cyclic(RowTitles, k), S_Acme, List(<<>>), NaN,
                          List(<<>>), Cyclic(BuyCells, k), Cyclic(ViewCells, k))],
     review |-> [k \in 1..Len(review_keys) |-> ReviewRow(review_keys[k], NaN)],
     qa |-> [k \in 1..Len(qa_keys) |-> QaRow(qa_keys[k])]]

LinkFamily ==
    {LinkRaw(m, r, q) : m \in SeqsUpTo(MetaKeys, MaxMeta), r \in SeqsUpTo(ReviewKeys, MaxReview),
                        q \in {<<>>, <<"X", "A">>}}

InitRaw ==
    /\ brand = <<>>
    /\ rets = <<>>
    /\ raw \in LinkFamily
    /\ Fresh

NextRaw ==
    \/ Construct(None, DefaultMaxEntries)
    \/ ProcessRaw

SpecRaw == InitRaw /\ [][NextRaw]_vars

(***************************************************************************)
(* Rendering: one product whose features, reviews, details and description *)
(* vary, next to a plain product that links to it.                         *)
(***************************************************************************)
MaxVotes == 3           \* reviews of the varied product

S_soft == chars("soft")
S_red == chars("red")

\* feature lists: none, kept entries, only skipped entries, both
FeaturePool ==
    {List(<<>>), List(<<S_soft>>), List(<<<<>>, chars("ASIN: B00")>>),
     List(<<S_soft, <<>>, chars("Asin 1"), S_red>>)}

\* the vote of a review: null, numbers with and without a thousands separator,
\* and text that is no number
VotePool == {NaN, Str(chars("7")), Str(chars("1,024")), Str(chars("abc"))}

DetailsPool ==
    {NaN,
     Dict("dictionary" :> Dict("product_dimensions" :> Str(chars("2 x 3 in ; 5 oz")))),
     Dict("dictionary" :> Dict("product_dimensions" :> Str(chars("5 oz"))))}

DescriptionPool == {List(<<>>), List(<<S_soft, S_red>>), List(<<<<" ">>>>), NaN}

\* product P1 with the given attributes and reviews, product P2 plain
DocRaw(feature, votes, details, description) ==
    [meta |->
        <<MetaRow("P1", S_Kit, <<>>, feature, details, description, List(<<"P2">>), NaN),
          MetaRow("P2", S_Mat, S_Acme, List(<<>>), NaN, List(<<>>), NaN, List(<<"P1">>))>>,
     review |->
        [k \in 1..Len(votes) |-> ReviewRow("P1", votes[k])] \o <<ReviewRow("P2", NaN)>>,
     qa |-> <<QaRow("P2"), QaRow("P2"), QaRow("P2")>>]

DocFamily ==
    {DocRaw(f, <<NaN>>, NaN, List(<<>>)) : f \in FeaturePool}
    \cup {DocRaw(List(<<>>), vs, NaN, List(<<>>)) : vs \in SeqsUpTo(VotePool, MaxVotes) \ {<<>>}}
    \cup {DocRaw(List(<<>>), <<NaN>>, d, List(<<>>)) : d \in DetailsPool}
    \cup {DocRaw(List(<<>>), <<NaN>>, NaN, d) : d \in DescriptionPool}

ChunkAttributes == {"title", "brand", "feature", "review", "qa", "description"}

InitDoc ==
    /\ brand = <<>>
    /\ rets = <<>>
    /\ raw \in DocFamily
    /\ Fresh

NextDoc ==
    \/ \E mlt \in {None, List(<<"brand">>)}, me \in {0, DefaultMaxEntries} : Construct(mlt, me)
    \/ ProcessRaw
    \/ PostProcessKind
    \/ PostProcessSave
    \/ \E idx \in DOMAIN node_info, add_rel \in BOOLEAN : GetDocInfo(idx, add_rel)
    \/ \E idx \in DOMAIN node_info, attribute \in ChunkAttributes : GetChunkInfo(idx, attribute)

SpecDoc == InitDoc /\ [][NextDoc]_vars

(***************************************************************************)
(* The cache under one root directory: constructions with kind lists whose *)
(* names join to the same text, among them a kind that no record holds.    *)
(***************************************************************************)
CacheKindLists ==
    {List(<<>>), List(<<"brand">>), List(<<"brand", "title">>), List(<<"brand-title">>)}

InitCache ==
    /\ brand = <<>>
    /\ rets = <<>>
    /\ raw \in BrandFamily
    /\ Fresh

NextCache ==
    \/ \E mlt \in CacheKindLists : Construct(mlt, DefaultMaxEntries)
    \/ ProcessRaw
    \/ PostProcessKind
    \/ PostProcessSave

SpecCache == InitCache /\ [][NextCache]_vars

(***************************************************************************)
(* Properties.                                                             *)
(***************************************************************************)
BaseEdgeTypes == 0 :> "also_buy" @@ 1 :> "also_view"
BaseNodeTypes == 0 :> "product"

\* the kinds whose iteration of the loop of post_process is over
KindsDone ==
    IF pc = "post" THEN SubSeq(meta_link_types.v, 1, i)
    ELSE IF truthy(meta_link_types) THEN meta_link_types.v
    ELSE <<>>

\* the edges (positions in the edge arrays) leaving idx with the given label
OutEdges(idx, label) ==
    {k \in 1..Len(edge_types) :
        /\ edge_index[1][k] = idx
        /\ edge_types[k] \in DOMAIN edge_type_dict
        /\ edge_type_dict[edge_types[k]] = label}

\* the entities of the base graph: those of node type 0 ("product")
Originals == {idx \in DOMAIN node_info : idx + 1 \in DOMAIN node_types /\ node_types[idx + 1] = 0}

\* C1: after post_process with kinds ["brand"], every original entity whose record
\* has a brand has exactly one outgoing has_brand edge, and the record at its
\* destination has brand_name equal to _process_brand of that brand; an original
\* entity without brand has no has_brand edge.
C1_OneBrandEdge ==
    (pc = "ready" /\ meta_link_types = List(<<"brand">>)) =>
        \A idx \in Originals :
            LET out == OutEdges(idx, "has_brand")
            IN  IF "brand" \in DOMAIN node_info[idx]
                THEN /\ Cardinality(out) = 1
                     /\ \A k \in out :
                           /\ edge_index[2][k] \in DOMAIN node_info
                           /\ "brand_name" \in DOMAIN node_info[edge_index[2][k]]
                           /\ node_info[edge_index[2][k]]["brand_name"]
                                = Str(process_brand(node_info[idx]["brand"].v))
                ELSE out = {}

\* C1's case: two entities share one brand node, the stored brand of one of them
\* still changes under normalisation, and a third entity has no brand
C1_Witness ==
    /\ pc = "ready"
    /\ meta_link_types = List(<<"brand">>)
    /\ \E a, b, c \in Originals :
          /\ a # b
          /\ "brand" \in DOMAIN node_info[a] /\ "brand" \in DOMAIN node_info[b]
          /\ node_info[a]["brand"].v # node_info[b]["brand"].v
          /\ \E k \in OutEdges(a, "has_brand"), g \in OutEdges(b, "has_brand") :
                edge_index[2][k] = edge_index[2][g]
          /\ "brand" \notin DOMAIN node_info[c]

\* C2: the kind at position k of the list gets edge-type id E + k (label "has_" +
\* kind) and node-type id N + k (label kind), the dictionaries have the keys
\* 0..E+m-1 and 0..N+m-1, the ids of the base graph keep their labels, and every
\* type id used in the arrays is a key of its dictionary.
C2_ContiguousTypeIds ==
    (pc \in {"post", "ready"} /\ hist.ran_post) =>
        LET m == Len(KindsDone)
            E == Cardinality(DOMAIN BaseEdgeTypes)
            N == Cardinality(DOMAIN BaseNodeTypes)
        IN  /\ n_e_types = E /\ n_n_types = N
            /\ DOMAIN edge_type_dict = 0..(E + m - 1)
            /\ DOMAIN node_type_dict = 0..(N + m - 1)
            /\ \A k \in 0..(m - 1) :
                  /\ edge_type_dict[E + k] = "has_" \o KindsDone[k + 1]
                  /\ node_type_dict[N + k] = KindsDone[k + 1]
            /\ \A id \in DOMAIN BaseEdgeTypes : edge_type_dict[id] = BaseEdgeTypes[id]
            /\ \A id \in DOMAIN BaseNodeTypes : node_type_dict[id] = BaseNodeTypes[id]
            /\ Range(edge_types) \subseteq DOMAIN edge_type_dict
            /\ Range(node_types) \subseteq DOMAIN node_type_dict

\* C2's case: a list of two kinds was processed and both new ids are in use
C2_Witness ==
    /\ pc = "ready" /\ hist.ran_post
    /\ Len(meta_link_types.v) = 2
    /\ {n_e_types, n_e_types + 1} \subseteq Range(edge_types)
    /\ {n_n_types, n_n_types + 1} \subseteq Range(node_types)

\* the bundle with which an earlier construction with the same kinds filled the cache
SavedBefore ==
    IF meta_link_types.t = "list"
    THEN {s \in hist.prior : s.kinds = meta_link_types.v}
    ELSE {}

\* C5: once a construction with kind list K has saved its bundle to the cache, a
\* later construction with the same K is a cache hit: it calls neither
\* _process_raw nor post_process and holds a bundle identical to the saved one.
C5_CacheHit ==
    (pc # "idle" /\ SavedBefore # {}) =>
        /\ pc = "ready"
        /\ ~hist.ran_raw
        /\ ~hist.ran_post
        /\ \A s \in SavedBefore : s.files = bundle

\* C5's case: the second construction with two kinds, after the first saved them
C5_Witness ==
    /\ pc = "ready" /\ runs = 2
    /\ SavedBefore # {}
    /\ Len(meta_link_types.v) = 2
    /\ Cardinality(DOMAIN node_info) > 4

\* the processed values of a kind over the entities with ids below n
ValuesBelow(kind, n) ==
    {process_brand(node_info[idx][kind].v) :
        idx \in {x \in DOMAIN node_info : x < n /\ kind \in DOMAIN node_info[x]}}

\* C9: the graph is well formed after the base construction and after every kind:
\* the node records have the keys 0..n-1, node_types has n entries, the three
\* edge arrays have one length, every endpoint is a node, and the synthetic
\* entities of each kind, one per distinct processed value, have the ids that
\* follow all entities that existed before the kind was processed.
C9_WellFormed ==
    (pc \in {"post", "ready"}) =>
        LET n == Cardinality(DOMAIN node_info)
            N == Cardinality(DOMAIN BaseNodeTypes)
        IN  /\ DOMAIN node_info = 0..(n - 1)
            /\ Len(node_types) = n
            /\ Len(edge_index[1]) = Len(edge_types)
            /\ Len(edge_index[2]) = Len(edge_types)
            /\ Range(edge_index[1]) \subseteq 0..(n - 1)
            /\ Range(edge_index[2]) \subseteq 0..(n - 1)
            /\ \A k \in 0..(Len(KindsDone) - 1) :
                  LET kind == KindsDone[k + 1]
                      before == Cardinality({p \in 1..n : node_types[p] < N + k})
                      mine == {idx \in 0..(n - 1) : node_types[idx + 1] = N + k}
                      vals == ValuesBelow(kind, before)
                  IN  /\ mine = before..(before + Cardinality(vals) - 1)
                      /\ \A idx \in mine : DOMAIN node_info[idx] = {kind \o "_name"}
                      /\ {node_info[idx][kind \o "_name"].v : idx \in mine} = vals

\* the first and the second application of _process_brand are over
Applied == Len(rets) >= 1
AppliedTwice == Len(rets) = 2

StartsWith(s, p) == Len(s) >= Len(p) /\ \A k \in 1..Len(p) : s[k] = p[k]
EndsWith(s, p) == Len(s) >= Len(p) /\ \A k \in 1..Len(p) : s[Len(s) - Len(p) + k] = p[k]

\* nothing is left for _process_brand to remove from r
Settled(r) ==
    /\ r # <<>> => (r[1] \notin BrandStripChars /\ r[Len(r)] \notin BrandStripChars)
    /\ ~(Len(r) > 3 /\ StartsWith(r, by_))
    /\ ~(Len(r) > 4 /\ EndsWith(r, dot_com))
    /\ ~(Len(r) > 4 /\ StartsWith(r, www_dot))

\* C3 as stated: _process_brand is idempotent on every string
C3_Idempotent == AppliedTwice => rets[2] = rets[1]

\* C3, amended: the second application returns the value of the first exactly
\* when that value is settled: it neither begins nor ends with a stripped
\* character, does not begin with "by " or "www." and does not end with ".com"
C3_IdempotentWhenSettled == AppliedTwice => ((rets[2] = rets[1]) <=> Settled(rets[1]))

\* C3's case: a prefix was removed by the first application and nothing by the second
C3_Witness ==
    /\ AppliedTwice
    /\ brand = by_ \o S_Acme \o <<" ">> \o S_Corp
    /\ rets[1] = S_Acme \o <<" ">> \o S_Corp
    /\ rets[2] = rets[1]

\* the reference pipeline of C4, each step written from its description
RefStrip(s) ==
    LET keep == {k \in 1..Len(s) : s[k] \notin BrandStripChars}
    IN  IF keep = {} THEN <<>>
        ELSE SubSeq(s, CHOOSE a \in keep : \A k \in keep : a <= k,
                       CHOOSE b \in keep : \A k \in keep : k <= b)
RefDropPrefix(s, p) ==
    IF Len(s) > Len(p) /\ StartsWith(s, p)
    THEN [k \in 1..(Len(s) - Len(p)) |-> s[k + Len(p)]] ELSE s
RefDropSuffix(s, p) ==
    IF Len(s) > Len(p) /\ EndsWith(s, p) THEN [k \in 1..(Len(s) - Len(p)) |-> s[k]] ELSE s
RefFirstToken(s) ==
    LET spaces == {k \in 1..Len(s) : s[k] = " "}
    IN  IF Len(s) > 100 /\ spaces # {}
        THEN [k \in 1..((CHOOSE a \in spaces : \A g \in spaces : a <= g) - 1) |-> s[k]]
        ELSE s
RefPipeline(s) ==
    RefFirstToken(RefDropPrefix(RefDropSuffix(RefDropPrefix(RefStrip(s), by_), dot_com),
                                www_dot))

\* C4: _process_brand equals the pipeline strip, drop "by ", drop ".com", drop
\* "www.", keep the first token of more than 100 characters, applied once in this
\* order; "by Acme Corp" gives "Acme Corp" and "www.acme.com" gives "acme".
C4_Pipeline ==
    Applied =>
        /\ rets[1] = RefPipeline(brand)
        /\ brand = by_ \o S_Acme \o <<" ">> \o S_Corp => rets[1] = S_Acme \o <<" ">> \o S_Corp
        /\ brand = www_dot \o S_acme \o dot_com => rets[1] = S_acme

\* C4's case: ".com" is dropped from "www.acme.com", then "www."
C4_Witness ==
    /\ Applied
    /\ brand = www_dot \o S_acme \o dot_com
    /\ rets[1] = S_acme

\* C9's case: two kinds were processed, each with at least two synthetic entities
C9_Witness ==
    /\ pc = "post" /\ i = 2
    /\ Cardinality({p \in DOMAIN node_types : node_types[p] = 1}) >= 2
    /\ Cardinality({p \in DOMAIN node_types : node_types[p] = 2}) >= 2

\* the keys of a collection of raw rows
KeysOf(rows) == {rows[k].asin : k \in 1..Len(rows)}

\* the position of the first row of the raw metadata with key a
FirstSeen(a) ==
    CHOOSE k \in 1..Len(raw.meta) :
        raw.meta[k].asin = a /\ \A g \in 1..(k - 1) : raw.meta[g].asin # a

Min(a, b) == IF a < b THEN a ELSE b

\* C6: after _process_raw has linked the raw collections, the retained keys are
\* exactly the keys found both in the metadata and in the reviews (whether or not
\* a Q&A row has the key), at most min(|metadata|, |review|) of them; asin2id and
\* id2asin are inverse bijections between them and 0..n-1; the ids follow the
\* order in which the keys are first seen in the metadata; and the record of an
\* id is built from the first metadata row of its key.
C6_RetainedKeys ==
    (pc = "ready" /\ hist.linked) =>
        LET keys == KeysOf(raw.meta) \cap KeysOf(raw.review)
            n == Cardinality(keys)
        IN  /\ DOMAIN asin2id = keys
            /\ DOMAIN id2asin = 0..(n - 1)
            /\ n <= Min(Len(raw.meta), Len(raw.review))
            /\ \A a \in keys : asin2id[a] \in 0..(n - 1) /\ id2asin[asin2id[a]] = a
            /\ \A k \in 0..(n - 1) : id2asin[k] \in keys /\ asin2id[id2asin[k]] = k
            /\ \A a, b \in keys : asin2id[a] < asin2id[b] <=> FirstSeen(a) < FirstSeen(b)
            /\ DOMAIN node_info = 0..(n - 1)
            /\ \A a \in keys :
                  /\ node_info[asin2id[a]]["asin"] = Key(a)
                  /\ node_info[asin2id[a]]["title"] = raw.meta[FirstSeen(a)].title

\* C6's case: two retained keys, the first of them "B" with its metadata row
\* repeated after the other key's row, a review key without metadata, and a
\* retained key without Q&A next to one with Q&A
C6_Witness ==
    /\ pc = "ready" /\ hist.linked
    /\ Cardinality(DOMAIN asin2id) = 2
    /\ raw.meta[1].asin = "B"
    /\ \E k \in 1..Len(raw.meta) : raw.meta[k].asin = raw.meta[1].asin /\ k > 2
    /\ KeysOf(raw.review) \ KeysOf(raw.meta) # {}
    /\ \E a, b \in DOMAIN asin2id : a \in KeysOf(raw.qa) /\ b \notin KeysOf(raw.qa)

\* the link sites of the base graph: <<id, p, e>> for the entry at position e
\* (1-based) of the list in link column p (0-based) of the first metadata row of
\* the key of entity id, when that entry is a retained key
LinkCell(id, p) == raw.meta[FirstSeen(id2asin[id])][link_columns[p + 1]]

LinkSites ==
    UNION {IF LinkCell(id, p).t = "list"
           THEN {<<id, p, e>> : e \in {x \in 1..Len(LinkCell(id, p).v) :
                                          LinkCell(id, p).v[x] \in DOMAIN asin2id}}
           ELSE {} : id \in DOMAIN id2asin, p \in 0..(Len(link_columns) - 1)}

\* discovery order: entities outermost, then columns, then list entries
SiteBefore(s, t) ==
    \/ s[1] < t[1]
    \/ s[1] = t[1] /\ s[2] < t[2]
    \/ s[1] = t[1] /\ s[2] = t[2] /\ s[3] < t[3]

SiteRank(s) == 1 + Cardinality({t \in LinkSites : SiteBefore(t, s)})

\* C8: the base graph has exactly one edge per link site, from the site's entity
\* to the entity of the referenced key, typed with the position of the column;
\* entries that are no retained key and cells that are no list give no edge; the
\* edges are listed in discovery order.
C8_EdgesInDiscoveryOrder ==
    (pc = "ready" /\ hist.linked) =>
        /\ Len(edge_types) = Cardinality(LinkSites)
        /\ Len(edge_index[1]) = Len(edge_types)
        /\ Len(edge_index[2]) = Len(edge_types)
        /\ \A s \in LinkSites :
              LET cell == LinkCell(s[1], s[2])
                  k == SiteRank(s)
              IN  /\ edge_index[1][k] = s[1]
                  /\ edge_index[2][k] = asin2id[cell.v[s[3]]]
                  /\ edge_types[k] = s[2]

\* C8's case: the first entity has edges of both columns, one of its entries is
\* an unknown key, and the second entity has an edge of the first column and a
\* cell that is no list
C8_Witness ==
    /\ pc = "ready" /\ hist.linked
    /\ Cardinality(DOMAIN id2asin) = 2
    /\ {<<0, 0, 1>>, <<0, 1, 1>>, <<1, 0, 1>>} \subseteq LinkSites
    /\ LinkCell(0, 0).t = "list"
    /\ \E e \in 1..Len(LinkCell(0, 0).v) : <<0, 0, e>> \notin LinkSites
    /\ LinkCell(1, 1).t # "list"
    /\ Len(edge_types) = Cardinality(LinkSites)

\* a call of get_doc_info has returned or raised
Called == pc = "ready" /\ doc.status # "none"

\* the node is a product whose record holds a title and, as lists, description,
\* feature, review and qa
ProductRecord(idx) ==
    /\ node_type_dict[node_types[idx + 1]] = "product"
    /\ "title" \in DOMAIN node_info[idx]
    /\ \A a \in {"description", "feature", "review", "qa"} :
          a \in DOMAIN node_info[idx] /\ node_info[idx][a].t = "list"

\* C7: get_doc_info does not raise on a node in range: a product record gives a
\* document whether or not it has a brand, dimensions, reviews or Q&A, and
\* whatever the votes of its reviews are (a vote that is null or no number
\* counts as 0); a brand node gives its name.
C7_NeverRaises ==
    (Called /\ (ProductRecord(doc.idx) \/ "brand_name" \in DOMAIN node_info[doc.idx]))
        => doc.status = "ok"

\* the positions of the feature entries that are neither empty nor mention "asin"
RemainingFeatures(idx) ==
    {k \in 1..Len(node_info[idx]["feature"].v) :
        /\ node_info[idx]["feature"].v[k] # <<>>
        /\ ~contains(lower(node_info[idx]["feature"].v[k]), chars("asin"))}

\* C10: the document of a product of which no feature entry remains after the
\* empty entries and the entries mentioning "asin" are skipped has no
\* "- features:" header, also when the feature list itself is not empty.
C10_NoEmptyFeaturesSection ==
    (Called /\ doc.status = "ok" /\ ProductRecord(doc.idx)
        /\ RemainingFeatures(doc.idx) = {})
        => ~contains(doc.text, chars("- features:"))

\* C12: after post_process, for every kind of the list other than "brand", every
\* original entity holding the attribute has an edge "has_<kind>" to a synthetic
\* node whose "<kind>_name" is the stored value of the attribute, unprocessed.
C12_OtherKindsAsIs ==
    (pc = "ready" /\ truthy(meta_link_types)) =>
        \A k \in 1..Len(meta_link_types.v) :
            LET kind == meta_link_types.v[k]
            IN  kind # "brand" =>
                    \A idx \in Originals :
                        kind \in DOMAIN node_info[idx] =>
                            \E e \in OutEdges(idx, "has_" \o kind) :
                                node_info[edge_index[2][e]][kind \o "_name"]
                                    = node_info[idx][kind]

\* C13: a construction with kind list K does not load a bundle that a
\* construction with another kind list saved: the kind lists that saved a bundle
\* have cache paths other than that of K, and a construction that ended by
\* loading from the cache holds the bundle saved for K, whose node types after
\* the base ones are the kinds of K in order.
C13_CacheHitIsOwnKinds ==
    (pc = "ready" /\ meta_link_types # None) =>
        /\ \A s \in hist.saved :
              s.kinds # meta_link_types.v => cache_path_of(List(s.kinds)) # cache_path
        /\ ~hist.ran_raw =>
              LET K == meta_link_types.v
                  N == Cardinality(DOMAIN BaseNodeTypes)
              IN  /\ \E s \in hist.prior : s.kinds = K /\ s.files = bundle
                  /\ DOMAIN node_type_dict = 0..(N + Len(K) - 1)
                  /\ \A k \in 1..Len(K) : node_type_dict[N + k - 1] = K[k]

\* the number of places of s where sub begins
Count(s, sub) ==
    Cardinality({k \in 1..(Len(s) - Len(sub) + 1) : SubSeq(s, k, k + Len(sub) - 1) = sub})

\* a call of get_chunk_info for the reviews or the Q&A of a product has returned
ChunkCalled(attribute) ==
    /\ pc = "ready" /\ chunk.status = "ok"
    /\ chunk.attribute = attribute
    /\ ProductRecord(chunk.idx)

\* the number of entries the cap max_entries + 1 lets through out of n
Capped(n) == Min(n, max_entries + 1)

\* C11: the reviews section and the Q&A section of a document, and the review
\* and the qa text of a chunk, show the entries of the node up to max_entries + 1
\* of them: all of them when the node has no more than that, exactly
\* max_entries + 1 otherwise.
C11_EntriesCap ==
    /\ (Called /\ doc.status = "ok" /\ ProductRecord(doc.idx)) =>
          /\ Count(doc.text, chars("summary: ")) = Capped(Len(node_info[doc.idx]["review"].v))
          /\ Count(doc.text, chars("question: ")) = Capped(Len(node_info[doc.idx]["qa"].v))
    /\ ChunkCalled("review") =>
          Count(chunk.value.v, chars("The review \"")) = Capped(Len(node_info[chunk.idx]["review"].v))
    /\ ChunkCalled("qa") =>
          Count(chunk.value.v, chars("The question is \""))
            = Capped(Len(node_info[chunk.idx]["qa"].v))

=============================================================================
